---- MODULE Spec2Model ----
(***************************************************************************)
(* ord-helper: the recipe resolver (logic/combination.ts) and the App      *)
(* handlers that drive it (App.tsx).                                       *)
(*                                                                         *)
(* Conventions of the model                                                *)
(*  - An Inventory (Record<string, number>) is a function from item id to  *)
(*    its count; the code reads every cell as `inventory[id] || 0`, so an  *)
(*    absent key and a key holding 0 are the same cell here.               *)
(*  - A unitsMap (Map<string, Unit>) is a function whose DOMAIN is the set *)
(*    of ids the catalog defines; a unit is [rarity, recipe], recipe being *)
(*    the ordered sequence of [unitId, count] (<< >> when absent).         *)
(*  - A function that returns a value and mutates the SimulationInventory  *)
(*    returns a record holding both.                                       *)
(*  - JavaScript doubles holding percentages are exact rationals [n, d].   *)
(***************************************************************************)
EXTENDS Integers, Sequences, FiniteSets, TLC

VARIABLES
    data,           \* App.tsx `data`: the loaded catalog, by its version
    inventory,      \* App.tsx `inventory`
    bans,           \* App.tsx `bans`
    isBanMode,      \* App.tsx `isBanMode`
    isWispEnabled,  \* App.tsx `isWispEnabled`
    totalCostCache, \* combination.ts `totalCostCache` (process-wide memo)
    shown,          \* UnitListItem: the UnitDetails each rendered item holds
    lastAction      \* history: whether the handler that ran last was a right
                    \* click that built ("build"), a right click that showed
                    \* the build error ("buildError"), a Ctrl + right click
                    \* that reached its updater ("refund"), a click outside ban mode
                    \* on an effectively banned unit ("ignored"), or
                    \* another ("other")

VARIABLES
    modalUnit,      \* RecipeModal.tsx prop `unit`: the unit the modal opens on
    isOpen,         \* RecipeModal.tsx prop `isOpen`
    currentUnit,    \* RecipeModal.tsx state `currentUnit`
    history         \* RecipeModal.tsx state `history`

VARIABLES
    unitShortcuts,  \* useShortcuts.ts state `unitShortcuts`: unit id -> key
    globalShortcuts,\* useShortcuts.ts state `globalShortcuts`: action -> key
    lastAssigned    \* history: for each key, the target the last assignment
                    \* of that key went to (a reset assigns the defaults)

VARIABLES
    imageCache,     \* CachedImage.tsx `imageCache`: URL -> object URL
    pendingRequests,\* CachedImage.tsx `pendingRequests`: URL -> promise
    promises,       \* the promises fetch(src)... created, in creation order
    closures,       \* the fetchImage() calls suspended at their await
    images          \* the CachedImage components: props, state, effect

appVars == <<data, inventory, bans, isBanMode, isWispEnabled, totalCostCache,
             shown, lastAction>>

modalVars == <<modalUnit, isOpen, currentUnit, history>>

shortcutVars == <<unitShortcuts, globalShortcuts, lastAssigned>>

imageVars == <<imageCache, pendingRequests, promises, closures, images>>

\* The state of the components other than the unit list and its handlers.
widgetVars == <<modalVars, shortcutVars, imageVars>>

vars == <<appVars, widgetVars>>

----------------------------------------------------------------------------
(* Bounds *)

\* The longest navigation history the recipe modal is driven to.
MaxHistory == 3

\* The most fetches the CachedImage components are let to issue.
MaxFetches == 3

\* Largest owned count the handlers are allowed to reach.
MaxOwned == 2

\* Largest requested count probed beyond the binary search's own probes.
MaxCount == 4

----------------------------------------------------------------------------
(* Catalogs *)

WispId == "common_wisp"

Ids == {"common_wisp", "a", "b", "c"}

Req(u, n) == [unitId |-> u, count |-> n]

Unit(r, rec) == [rarity |-> r, recipe |-> rec]

\* A shipped data version: Common units are primitive.
CatalogV1 ==
    [id \in {"common_wisp", "a", "b", "c"} |->
        CASE id = "common_wisp" -> Unit("Common", << >>)
          [] id = "a" -> Unit("Common", << >>)
          [] id = "b" -> Unit("Uncommon", <<Req("a", 2)>>)
          [] id = "c" -> Unit("Rare", <<Req("b", 1), Req("a", 1),
                                        Req("common_wisp", 1)>>)]

\* An imported data file (handleImportData accepts any object with a units
\* array): a Common unit with a recipe, and a recipe naming an id ("a")
\* that the file does not define.
CatalogCustom ==
    [id \in {"common_wisp", "b", "c"} |->
        CASE id = "common_wisp" -> Unit("Common", << >>)
          [] id = "b" -> Unit("Common", <<Req("a", 1)>>)
          [] id = "c" -> Unit("Rare", <<Req("b", 1), Req("common_wisp", 1)>>)]

Versions == {"v1", "Custom"}

\* A data version without any Common unit but the wisp.
CatalogV2 ==
    [id \in {"common_wisp", "a", "b", "c"} |->
        CASE id = "common_wisp" -> Unit("Common", << >>)
          [] id = "a" -> Unit("Uncommon", << >>)
          [] id = "b" -> Unit("Rare", <<Req("a", 2)>>)
          [] id = "c" -> Unit("Legendary", <<Req("b", 1), Req("a", 1),
                                             Req("common_wisp", 1)>>)]

\* `new Map(data.units.map((u) => [u.id, u]))`; the empty Map while data is null.
Catalog(v) ==
    CASE v = "v1" -> CatalogV1
      [] v = "Custom" -> CatalogCustom
      [] v = "v2" -> CatalogV2
      [] OTHER -> [x \in {} |-> Unit("Common", << >>)]

\* The order of data.units, in which the list items render.
UnitOrder(v) ==
    CASE v = "v1" -> <<"common_wisp", "a", "b", "c">>
      [] v = "Custom" -> <<"common_wisp", "b", "c">>
      [] v = "v2" -> <<"common_wisp", "a", "b", "c">>
      [] OTHER -> << >>

Min(x, y) == IF x < y THEN x ELSE y

Max(x, y) == IF x > y THEN x ELSE y

----------------------------------------------------------------------------
(* SimulationInventory *)

EmptyMap == [x \in {} |-> 0]

MapSet(m, id, v) == [x \in (DOMAIN m) \cup {id} |-> IF x = id THEN v ELSE m[x]]

\* inventory[id] || 0
Owned(inv, id) == IF id \in DOMAIN inv THEN inv[id] ELSE 0

\* The overlay as [base, current]: current[id] is what get(id) returns, the
\* `modified` entry where one was recorded and the base cell otherwise.
SimulationInventory(base) == [base |-> base, current |-> [id \in Ids |-> Owned(base, id)]]

SimGet(sim, id) == sim.current[id]

\* remove() writing the new balance into the base Inventory as well.
SimRemoveFromBase(sim, id, amount) ==
    [sim EXCEPT !.current[id] = @ - amount,
                !.base = MapSet(sim.base, id, sim.current[id] - amount)]

SimRemove(sim, id, amount) == [sim EXCEPT !.current[id] = @ - amount]

\* Only a cell that remove() lowered can be below its base cell.
getConsumed(sim) ==
    [id \in {x \in Ids : sim.current[x] < Owned(sim.base, x)} |->
        Owned(sim.base, id) - sim.current[id]]

\* The overlay left as constructed: the target's own balance stays in it.
SimWithTarget(target, inv) ==
    SimulationInventory(inv)

\* The overlay with the target's own balance zeroed.
SimWithoutTarget(target, inv) ==
    LET sim == SimulationInventory(inv)
    IN  IF SimGet(sim, target) > 0
        THEN SimRemove(sim, target, SimGet(sim, target))
        ELSE sim

----------------------------------------------------------------------------
(* calculateConsumption *)

RECURSIVE fulfill(_, _, _, _, _, _)
RECURSIVE fulfillRecipe(_, _, _, _, _, _, _)

\* The `for (const req of unit.recipe)` loop of fulfill, from index k on.
fulfillRecipe(recipe, k, amount, sim, unitsMap, banSet, allowWisp) ==
    IF k > Len(recipe) THEN [ok |-> TRUE, sim |-> sim]
    ELSE LET r == fulfill(recipe[k].unitId, recipe[k].count * amount, sim,
                          unitsMap, banSet, allowWisp)
         IN  IF ~r.ok THEN r
             ELSE fulfillRecipe(recipe, k + 1, amount, r.sim, unitsMap, banSet,
                                allowWisp)

\* fulfill without the `unit.rarity === 'Common'` test before drawing wisps.
fulfillWispsForAnyRarity(id, amount, sim, unitsMap, banSet, allowWisp) ==
    IF amount <= 0 THEN [ok |-> TRUE, sim |-> sim]
    ELSE
    LET available == SimGet(sim, id)
        take == Min(available, amount)
        sim1 == IF take > 0 THEN SimRemove(sim, id, take) ELSE sim
        amount1 == IF take > 0 THEN amount - take ELSE amount
    IN  IF amount1 = 0 THEN [ok |-> TRUE, sim |-> sim1]
        ELSE IF id \notin DOMAIN unitsMap THEN [ok |-> FALSE, sim |-> sim1]
        ELSE
        LET unit == unitsMap[id]
            wispable == allowWisp /\ id # WispId
            takeWisps == IF wispable THEN Min(SimGet(sim1, WispId), amount1) ELSE 0
            sim2 == IF takeWisps > 0 THEN SimRemove(sim1, WispId, takeWisps) ELSE sim1
            amount2 == IF takeWisps > 0 THEN amount1 - takeWisps ELSE amount1
        IN  IF wispable /\ amount2 = 0 THEN [ok |-> TRUE, sim |-> sim2]
            ELSE IF id \in banSet THEN [ok |-> FALSE, sim |-> sim2]
            ELSE IF Len(unit.recipe) = 0 THEN [ok |-> FALSE, sim |-> sim2]
            ELSE fulfillRecipe(unit.recipe, 1, amount2, sim2, unitsMap, banSet,
                               allowWisp)

\* fulfill without the `if (bans.has(id)) return false` line.
fulfillIgnoringBans(id, amount, sim, unitsMap, banSet, allowWisp) ==
    IF amount <= 0 THEN [ok |-> TRUE, sim |-> sim]
    ELSE
    LET available == SimGet(sim, id)
        take == Min(available, amount)
        sim1 == IF take > 0 THEN SimRemove(sim, id, take) ELSE sim
        amount1 == IF take > 0 THEN amount - take ELSE amount
    IN  IF amount1 = 0 THEN [ok |-> TRUE, sim |-> sim1]
        ELSE IF id \notin DOMAIN unitsMap THEN [ok |-> FALSE, sim |-> sim1]
        ELSE
        LET unit == unitsMap[id]
            wispable == allowWisp /\ unit.rarity = "Common" /\ id # WispId
            takeWisps == IF wispable THEN Min(SimGet(sim1, WispId), amount1) ELSE 0
            sim2 == IF takeWisps > 0 THEN SimRemove(sim1, WispId, takeWisps) ELSE sim1
            amount2 == IF takeWisps > 0 THEN amount1 - takeWisps ELSE amount1
        IN  IF wispable /\ amount2 = 0 THEN [ok |-> TRUE, sim |-> sim2]
            ELSE IF Len(unit.recipe) = 0 THEN [ok |-> FALSE, sim |-> sim2]
            ELSE fulfillRecipe(unit.recipe, 1, amount2, sim2, unitsMap, banSet,
                               allowWisp)

\* fulfill taking all that is available instead of Math.min(available, amount).
fulfillTakingAll(id, amount, sim, unitsMap, banSet, allowWisp) ==
    IF amount <= 0 THEN [ok |-> TRUE, sim |-> sim]
    ELSE
    LET available == SimGet(sim, id)
        take == available
        sim1 == IF take > 0 THEN SimRemove(sim, id, take) ELSE sim
        amount1 == IF take > 0 THEN amount - take ELSE amount
    IN  IF amount1 = 0 THEN [ok |-> TRUE, sim |-> sim1]
        ELSE IF id \notin DOMAIN unitsMap THEN [ok |-> FALSE, sim |-> sim1]
        ELSE
        LET unit == unitsMap[id]
            wispable == allowWisp /\ unit.rarity = "Common" /\ id # WispId
            takeWisps == IF wispable THEN Min(SimGet(sim1, WispId), amount1) ELSE 0
            sim2 == IF takeWisps > 0 THEN SimRemove(sim1, WispId, takeWisps) ELSE sim1
            amount2 == IF takeWisps > 0 THEN amount1 - takeWisps ELSE amount1
        IN  IF wispable /\ amount2 = 0 THEN [ok |-> TRUE, sim |-> sim2]
            ELSE IF id \in banSet THEN [ok |-> FALSE, sim |-> sim2]
            ELSE IF Len(unit.recipe) = 0 THEN [ok |-> FALSE, sim |-> sim2]
            ELSE fulfillRecipe(unit.recipe, 1, amount2, sim2, unitsMap, banSet,
                               allowWisp)

fulfill(id, amount, sim, unitsMap, banSet, allowWisp) ==
    IF amount <= 0 THEN [ok |-> TRUE, sim |-> sim]
    ELSE
    LET available == SimGet(sim, id)
        take == Min(available, amount)
        sim1 == IF take > 0 THEN SimRemove(sim, id, take) ELSE sim
        amount1 == IF take > 0 THEN amount - take ELSE amount
    IN  IF amount1 = 0 THEN [ok |-> TRUE, sim |-> sim1]
        ELSE IF id \notin DOMAIN unitsMap THEN [ok |-> FALSE, sim |-> sim1]
        ELSE
        LET unit == unitsMap[id]
            wispable == allowWisp /\ unit.rarity = "Common" /\ id # WispId
            takeWisps == IF wispable THEN Min(SimGet(sim1, WispId), amount1) ELSE 0
            sim2 == IF takeWisps > 0 THEN SimRemove(sim1, WispId, takeWisps) ELSE sim1
            amount2 == IF takeWisps > 0 THEN amount1 - takeWisps ELSE amount1
        IN  IF wispable /\ amount2 = 0 THEN [ok |-> TRUE, sim |-> sim2]
            ELSE IF id \in banSet THEN [ok |-> FALSE, sim |-> sim2]
            ELSE IF Len(unit.recipe) = 0 THEN [ok |-> FALSE, sim |-> sim2]
            ELSE fulfillRecipe(unit.recipe, 1, amount2, sim2, unitsMap, banSet,
                               allowWisp)

\* Returns [ok, consumed]; ok = FALSE is the code's null.
calculateConsumption(targetUnitId, unitsMap, inv, banSet, count, allowWisp) ==
    LET r == fulfill(targetUnitId, count, SimWithoutTarget(targetUnitId, inv),
                     unitsMap, banSet, allowWisp)
        consumed == getConsumed(r.sim)
    IN  IF ~r.ok THEN [ok |-> FALSE, consumed |-> EmptyMap]
        ELSE [ok |-> TRUE,
              consumed |-> [id \in (DOMAIN consumed) \ {targetUnitId} |-> consumed[id]]]

----------------------------------------------------------------------------
(* calculateBuildable *)

\* The ceiling of the binary search (`let high = 100`).
BuildableCap == 100

RECURSIVE BuildableSearch(_, _, _, _, _, _, _)

\* The search stepping `low = mid + 2` when the midpoint is already known
\* feasible.
BuildableSearchSkipping(low, high, max, targetUnitId, unitsMap, inv, banSet) ==
    IF low > high THEN max
    ELSE LET mid == (low + high) \div 2
         IN  IF mid <= max
             THEN BuildableSearch(mid + 2, high, max, targetUnitId, unitsMap, inv, banSet)
             ELSE IF calculateConsumption(targetUnitId, unitsMap, inv, banSet, mid, TRUE).ok
                  THEN BuildableSearch(mid + 1, high, mid, targetUnitId, unitsMap, inv, banSet)
                  ELSE BuildableSearch(low, mid - 1, max, targetUnitId, unitsMap, inv, banSet)

\* The while loop of calculateBuildable, from the state (low, high, max).
BuildableSearch(low, high, max, targetUnitId, unitsMap, inv, banSet) ==
    IF low > high THEN max
    ELSE LET mid == (low + high) \div 2
         IN  IF mid <= max
             THEN BuildableSearch(mid + 1, high, max, targetUnitId, unitsMap, inv, banSet)
             ELSE IF calculateConsumption(targetUnitId, unitsMap, inv, banSet, mid, TRUE).ok
                  THEN BuildableSearch(mid + 1, high, mid, targetUnitId, unitsMap, inv, banSet)
                  ELSE BuildableSearch(low, mid - 1, max, targetUnitId, unitsMap, inv, banSet)

calculateBuildable(targetUnitId, unitsMap, inv, banSet) ==
    IF ~calculateConsumption(targetUnitId, unitsMap, inv, banSet, 1, TRUE).ok
    THEN 0
    ELSE BuildableSearch(1, BuildableCap, 1, targetUnitId, unitsMap, inv, banSet)

----------------------------------------------------------------------------
(* calculateTotalCost: reads and fills the process-wide totalCostCache *)

RECURSIVE calculateTotalCost(_, _, _)
RECURSIVE totalCostRecipe(_, _, _, _, _)

\* The `for (const req of unit.recipe)` loop, from index k on with `total`.
totalCostRecipe(recipe, k, total, unitsMap, cache) ==
    IF k > Len(recipe) THEN [value |-> total, cache |-> cache]
    ELSE LET r == calculateTotalCost(recipe[k].unitId, unitsMap, cache)
         IN  totalCostRecipe(recipe, k + 1, total + r.value * recipe[k].count,
                             unitsMap, r.cache)

\* calculateTotalCost with the base case returning (and caching) 0.
calculateTotalCostFreeLeaf(unitId, unitsMap, cache) ==
    IF unitId \in DOMAIN cache THEN [value |-> cache[unitId], cache |-> cache]
    ELSE IF unitId \notin DOMAIN unitsMap THEN [value |-> 0, cache |-> cache]
    ELSE IF Len(unitsMap[unitId].recipe) = 0
         THEN [value |-> 0, cache |-> MapSet(cache, unitId, 0)]
    ELSE LET r == totalCostRecipe(unitsMap[unitId].recipe, 1, 0, unitsMap, cache)
         IN  [value |-> r.value, cache |-> MapSet(r.cache, unitId, r.value)]

\* Returns [value, cache]: the cost and the cache after the call.
calculateTotalCost(unitId, unitsMap, cache) ==
    IF unitId \in DOMAIN cache THEN [value |-> cache[unitId], cache |-> cache]
    ELSE IF unitId \notin DOMAIN unitsMap THEN [value |-> 0, cache |-> cache]
    ELSE IF Len(unitsMap[unitId].recipe) = 0
         THEN [value |-> 1, cache |-> MapSet(cache, unitId, 1)]
    ELSE LET r == totalCostRecipe(unitsMap[unitId].recipe, 1, 0, unitsMap, cache)
         IN  [value |-> r.value, cache |-> MapSet(r.cache, unitId, r.value)]

----------------------------------------------------------------------------
(* calculateMissingCost, calculateMissingWispableCost *)

RECURSIVE missingRecursive(_, _, _, _, _, _)
RECURSIVE missingRecipe(_, _, _, _, _, _, _, _)

\* What a residual `amount` of `id` contributes where the traversal stops:
\* calculateMissingCost counts it, calculateMissingWispableCost counts it
\* only for a catalog unit that is Common and not the wisp.
LeafMissing(id, amount, unitsMap, wispableOnly) ==
    IF ~wispableOnly THEN amount
    ELSE IF id \notin DOMAIN unitsMap THEN 0
    ELSE IF unitsMap[id].rarity = "Common" /\ id # WispId THEN amount
    ELSE 0

missingRecipe(recipe, k, amount, missing, sim, unitsMap, banSet, wispableOnly) ==
    IF k > Len(recipe) THEN [value |-> missing, sim |-> sim]
    ELSE LET r == missingRecursive(recipe[k].unitId, recipe[k].count * amount, sim,
                                   unitsMap, banSet, wispableOnly)
         IN  missingRecipe(recipe, k + 1, amount, missing + r.value, r.sim,
                           unitsMap, banSet, wispableOnly)

\* calculateRecursive of both functions; returns [value, sim].
missingRecursive(id, amount, sim, unitsMap, banSet, wispableOnly) ==
    IF amount <= 0 THEN [value |-> 0, sim |-> sim]
    ELSE
    LET available == SimGet(sim, id)
        take == Min(available, amount)
        sim1 == IF take > 0 THEN SimRemove(sim, id, take) ELSE sim
        amount1 == IF take > 0 THEN amount - take ELSE amount
    IN  IF amount1 = 0 THEN [value |-> 0, sim |-> sim1]
        ELSE IF id \notin DOMAIN unitsMap
             THEN [value |-> LeafMissing(id, amount1, unitsMap, wispableOnly),
                   sim |-> sim1]
        ELSE IF Len(unitsMap[id].recipe) = 0 \/ id \in banSet
             THEN [value |-> LeafMissing(id, amount1, unitsMap, wispableOnly),
                   sim |-> sim1]
        ELSE missingRecipe(unitsMap[id].recipe, 1, amount1, 0, sim1, unitsMap,
                           banSet, wispableOnly)

calculateMissingCost(unitId, unitsMap, inv, banSet) ==
    missingRecursive(unitId, 1, SimWithoutTarget(unitId, inv), unitsMap, banSet,
                     FALSE).value

calculateMissingWispableCost(unitId, unitsMap, inv, banSet) ==
    missingRecursive(unitId, 1, SimWithoutTarget(unitId, inv), unitsMap, banSet,
                     TRUE).value

----------------------------------------------------------------------------
(* calculateMissingBaseUnits *)

RECURSIVE missingBaseRecursive(_, _, _, _, _, _)
RECURSIVE missingBaseRecipe(_, _, _, _, _, _, _)

\* The `for (const req of unit.recipe)` loop of calculateRecursive, from
\* index k on.
missingBaseRecipe(recipe, k, amount, missingUnits, sim, unitsMap, banSet) ==
    IF k > Len(recipe) THEN [missingUnits |-> missingUnits, sim |-> sim]
    ELSE LET r == missingBaseRecursive(recipe[k].unitId, recipe[k].count * amount,
                                       missingUnits, sim, unitsMap, banSet)
         IN  missingBaseRecipe(recipe, k + 1, amount, r.missingUnits, r.sim,
                               unitsMap, banSet)

\* calculateRecursive of calculateMissingBaseUnits; returns [missingUnits,
\* sim]: the record and the overlay after the call.
missingBaseRecursive(id, amount, missingUnits, sim, unitsMap, banSet) ==
    IF amount <= 0 THEN [missingUnits |-> missingUnits, sim |-> sim]
    ELSE
    LET available == SimGet(sim, id)
        take == Min(available, amount)
        sim1 == IF take > 0 THEN SimRemove(sim, id, take) ELSE sim
        amount1 == IF take > 0 THEN amount - take ELSE amount
    IN  IF amount1 = 0 THEN [missingUnits |-> missingUnits, sim |-> sim1]
        ELSE IF id \notin DOMAIN unitsMap
             THEN [missingUnits |-> missingUnits, sim |-> sim1]
        ELSE IF Len(unitsMap[id].recipe) = 0 \/ id \in banSet
             THEN [missingUnits |->
                        MapSet(missingUnits, id, Owned(missingUnits, id) + amount1),
                   sim |-> sim1]
        ELSE missingBaseRecipe(unitsMap[id].recipe, 1, amount1, missingUnits, sim1,
                               unitsMap, banSet)

calculateMissingBaseUnits(unitId, unitsMap, inv, banSet) ==
    missingBaseRecursive(unitId, 1, EmptyMap, SimWithoutTarget(unitId, inv),
                         unitsMap, banSet).missingUnits

----------------------------------------------------------------------------
(* getUnitDetails *)

\* A percentage held in a double, as the exact rational n / d (d > 0).
Pct(n, d) == [n |-> n, d |-> d]

PctLeq(p, q) == p.n * q.d <= q.n * p.d

PctEq(p, q) == p.n * q.d = q.n * p.d

\* Math.min(100, Math.max(0, p))
Clamp(p) ==
    IF p.n < 0 THEN Pct(0, 1)
    ELSE IF p.n > 100 * p.d THEN Pct(100, 1)
    ELSE p

\* materialProgress with the `totalCost -` dropped: the missing share.
MaterialProgressOfMissing(totalCost, missingCost) ==
    Pct(missingCost * 100, totalCost)

\* ((totalCost - missingCost) / totalCost) * 100
MaterialProgress(totalCost, missingCost) ==
    Pct((totalCost - missingCost) * 100, totalCost)

\* ((totalCost - effectiveMissing) / totalCost) * 100
TotalProgress(totalCost, effectiveMissing) ==
    Pct((totalCost - effectiveMissing) * 100, totalCost)

\* Returns [details, cache]: the UnitDetails and the totalCostCache after
\* the call (only the non-green path calls calculateTotalCost).
getUnitDetails(targetUnitId, unitsMap, inv, banSet, cache) ==
    LET normalConsumption ==
            calculateConsumption(targetUnitId, unitsMap, inv, banSet, 1, FALSE)
    IN
    IF normalConsumption.ok
    THEN [details |->
            [status |-> "green",
             buildableCount |-> calculateBuildable(targetUnitId, unitsMap, inv, banSet),
             progress |-> Pct(100, 1),
             materialProgress |-> Pct(100, 1),
             wispProgress |-> Pct(0, 1),
             wispCost |-> 0,
             isWispAssisted |-> FALSE],
          cache |-> cache]
    ELSE
    LET wispConsumption ==
            calculateConsumption(targetUnitId, unitsMap, inv, banSet, 1, TRUE)
        status == IF wispConsumption.ok THEN "orange" ELSE "red"
        wispCost == IF wispConsumption.ok
                    THEN Owned(wispConsumption.consumed, WispId)
                    ELSE 0
        tc == calculateTotalCost(targetUnitId, unitsMap, cache)
        totalCost == tc.value
    IN
    IF totalCost = 0
    THEN [details |->
            [status |-> status,
             buildableCount |-> 0,
             progress |-> Pct(0, 1),
             materialProgress |-> Pct(0, 1),
             wispProgress |-> Pct(0, 1),
             wispCost |-> wispCost,
             isWispAssisted |-> FALSE],
          cache |-> tc.cache]
    ELSE
    LET missingCost == calculateMissingCost(targetUnitId, unitsMap, inv, banSet)
        availableWisps == Owned(inv, WispId)
        missingWispable ==
            calculateMissingWispableCost(targetUnitId, unitsMap, inv, banSet)
        wispContribution == Min(missingWispable, availableWisps)
        effectiveMissing == Max(0, missingCost - wispContribution)
        materialProgress == MaterialProgress(totalCost, missingCost)
        progress ==
            IF status = "orange" THEN Pct(100, 1)
            ELSE TotalProgress(totalCost, effectiveMissing)
        wispProgress ==
            IF status = "orange"
            THEN Pct(100 * materialProgress.d - materialProgress.n, materialProgress.d)
            ELSE Pct(wispContribution * 100, totalCost)
    IN  [details |->
            [status |-> status,
             buildableCount |->
                IF status = "orange"
                THEN calculateBuildable(targetUnitId, unitsMap, inv, banSet)
                ELSE 0,
             progress |-> Clamp(progress),
             materialProgress |-> Clamp(materialProgress),
             wispProgress |-> Clamp(wispProgress),
             wispCost |-> wispCost,
             isWispAssisted |-> wispContribution > 0 /\ missingCost > 0],
          cache |-> tc.cache]

----------------------------------------------------------------------------
(* consumeMaterials *)

\* consumeMaterials with the "Remove consumed materials" loop left out.
consumeMaterialsKeepsMaterials(targetUnitId, unitsMap, inv) ==
    LET normal == calculateConsumption(targetUnitId, unitsMap, inv, {}, 1, FALSE)
        consumption ==
            IF normal.ok THEN normal
            ELSE calculateConsumption(targetUnitId, unitsMap, inv, {}, 1, TRUE)
    IN  IF ~consumption.ok THEN [ok |-> FALSE, inventory |-> inv]
        ELSE [ok |-> TRUE,
              inventory |-> MapSet(inv, targetUnitId, Owned(inv, targetUnitId) + 1)]

\* consumeMaterials without the second attempt, the one with wisps.
consumeMaterialsNoWispRetry(targetUnitId, unitsMap, inv) ==
    LET consumption == calculateConsumption(targetUnitId, unitsMap, inv, {}, 1, FALSE)
        removed == [id \in (DOMAIN inv) \cup (DOMAIN consumption.consumed) |->
                        IF id \in DOMAIN consumption.consumed
                        THEN Owned(inv, id) - consumption.consumed[id]
                        ELSE inv[id]]
    IN  IF ~consumption.ok THEN [ok |-> FALSE, inventory |-> inv]
        ELSE [ok |-> TRUE,
              inventory |-> MapSet(removed, targetUnitId, Owned(removed, targetUnitId) + 1)]

\* Returns [ok, inventory]; ok = FALSE is the thrown "Insufficient
\* materials" error, and then no inventory is returned.
consumeMaterials(targetUnitId, unitsMap, inv) ==
    LET normal == calculateConsumption(targetUnitId, unitsMap, inv, {}, 1, FALSE)
        consumption ==
            IF normal.ok THEN normal
            ELSE calculateConsumption(targetUnitId, unitsMap, inv, {}, 1, TRUE)
        removed == [id \in (DOMAIN inv) \cup (DOMAIN consumption.consumed) |->
                        IF id \in DOMAIN consumption.consumed
                        THEN Owned(inv, id) - consumption.consumed[id]
                        ELSE inv[id]]
    IN  IF ~consumption.ok THEN [ok |-> FALSE, inventory |-> inv]
        ELSE [ok |-> TRUE,
              inventory |->
                [id \in (DOMAIN removed) \cup {targetUnitId} |->
                    IF id = targetUnitId THEN Owned(removed, id) + 1
                    ELSE removed[id]]]

----------------------------------------------------------------------------
(* getEffectiveBans *)

RECURSIVE EffectiveClosure(_, _)

\* Least fixed point: the bans, plus every unit one of whose ingredients is
\* already in the set.
EffectiveClosure(unitsMap, set) ==
    LET more == {id \in DOMAIN unitsMap :
                    \E k \in 1..Len(unitsMap[id].recipe) :
                        unitsMap[id].recipe[k].unitId \in set}
    IN  IF more \subseteq set THEN set
        ELSE EffectiveClosure(unitsMap, set \cup more)

getEffectiveBans(unitsMap, banSet) == EffectiveClosure(unitsMap, banSet)

----------------------------------------------------------------------------
(* App state *)

unitsMap == Catalog(data)

effectiveBans == getEffectiveBans(unitsMap, bans)

NoAction == "none"

EmptyInventory == [id \in Ids |-> 0]

NothingShown == [x \in {} |-> 0]

\* RecipeModal mounted closed: useState(unit), useState([]).
ModalInit ==
    /\ modalUnit = WispId
    /\ isOpen = FALSE
    /\ currentUnit = modalUnit
    /\ history = <<>>

\* The keys a shortcut can be bound to, and the global actions.
Keys == {"t", "b", "w", "q"}

GLOBAL_ACTIONS ==
    {"TOGGLE_TOOLTIP", "TOGGLE_BAN_MODE", "TOGGLE_WISP_MODE", "RESET_INVENTORY"}

DEFAULT_GLOBAL_SHORTCUTS ==
    [actionId \in {"TOGGLE_TOOLTIP", "TOGGLE_BAN_MODE", "TOGGLE_WISP_MODE"} |->
        CASE actionId = "TOGGLE_TOOLTIP" -> "t"
          [] actionId = "TOGGLE_BAN_MODE" -> "b"
          [] actionId = "TOGGLE_WISP_MODE" -> "w"]

\* A target of a key: a unit or a global action.
UnitTarget(unitId) == <<"unit", unitId>>

GlobalTarget(actionId) == <<"global", actionId>>

\* The targets the default bindings give their keys.
DefaultAssigned ==
    [key \in {DEFAULT_GLOBAL_SHORTCUTS[actionId] :
                    actionId \in DOMAIN DEFAULT_GLOBAL_SHORTCUTS} |->
        GlobalTarget(CHOOSE actionId \in DOMAIN DEFAULT_GLOBAL_SHORTCUTS :
                        DEFAULT_GLOBAL_SHORTCUTS[actionId] = key)]

\* useShortcuts with nothing saved in localStorage.
ShortcutsInit ==
    /\ unitShortcuts = EmptyMap
    /\ globalShortcuts = DEFAULT_GLOBAL_SHORTCUTS
    /\ lastAssigned = DefaultAssigned

\* The CachedImage components of the page and the URLs they may be given.
Comps == {"img1", "img2"}

Urls == {"u1", "u2"}

NoImage == "null"

\* A component that is not rendered. `passive` tells that a commit's
\* passive effects (the cleanup of the previous effect and the effect of
\* the new src) are still to be flushed.
Unmounted ==
    [mounted |-> FALSE, src |-> NoImage, cachedSrc |-> NoImage,
     passive |-> FALSE]

\* The module just loaded: both maps empty, nothing rendered.
ImagesInit ==
    /\ imageCache = EmptyMap
    /\ pendingRequests = EmptyMap
    /\ promises = <<>>
    /\ closures = {}
    /\ images = [c \in Comps |-> Unmounted]

WidgetsInit == ModalInit /\ ShortcutsInit /\ ImagesInit

\* The app once the catalog of the stored version has loaded, with nothing
\* saved in localStorage.
Init ==
    /\ data \in Versions
    /\ inventory = EmptyInventory
    /\ bans = {}
    /\ isBanMode = FALSE
    /\ isWispEnabled = TRUE
    /\ totalCostCache = EmptyMap
    /\ shown = NothingShown
    /\ lastAction = NoAction
    /\ WidgetsInit

\* Every count a handler is about to store stays within the model's bound.
WithinBound(inv) == \A id \in DOMAIN inv : inv[id] <= MaxOwned

\* handleVersionChange(ver), the user confirming, together with the effect
\* that loads the catalog of the new currentVersion.
handleVersionChange(ver) ==
    /\ ver # data
    /\ data' = ver
    /\ inventory' = EmptyInventory
    /\ bans' = {}
    /\ lastAction' = "other"
    /\ UNCHANGED <<isBanMode, isWispEnabled, totalCostCache, shown, widgetVars>>

\* handleImportData with a well-formed file (the Custom catalog): the
\* catalog is replaced, inventory and bans are kept.
handleImportData ==
    /\ data' = "Custom"
    /\ lastAction' = "other"
    /\ UNCHANGED <<inventory, bans, isBanMode, isWispEnabled, totalCostCache, shown, widgetVars>>

\* handleUnitClick in ban mode: any click toggles the ban.
BanClick(unitId) ==
    /\ unitId \in DOMAIN unitsMap
    /\ isBanMode
    /\ bans' = IF unitId \in bans THEN bans \ {unitId} ELSE bans \cup {unitId}
    /\ lastAction' = "other"
    /\ UNCHANGED <<data, inventory, isBanMode, isWispEnabled, totalCostCache, shown, widgetVars>>

\* handleUnitClick outside ban mode on an effectively banned unit: returns.
BannedClick(unitId) ==
    /\ unitId \in DOMAIN unitsMap
    /\ ~isBanMode
    /\ unitId \in effectiveBans
    /\ lastAction' = "ignored"
    /\ UNCHANGED <<data, inventory, bans, isBanMode, isWispEnabled, totalCostCache,
                   shown, widgetVars>>

\* The guards of handleUnitClick without the effective-ban return.
ClickableThoughBanned(unitId) ==
    /\ unitId \in DOMAIN unitsMap
    /\ ~isBanMode

\* The guards handleUnitClick passes before it looks at the buttons.
Clickable(unitId) ==
    /\ unitId \in DOMAIN unitsMap
    /\ ~isBanMode
    /\ unitId \notin effectiveBans

\* Left click: add one.
LeftClick(unitId) ==
    /\ Clickable(unitId)
    /\ Owned(inventory, unitId) < MaxOwned
    /\ inventory' = MapSet(inventory, unitId, Owned(inventory, unitId) + 1)
    /\ lastAction' = "other"
    /\ UNCHANGED <<data, bans, isBanMode, isWispEnabled, totalCostCache, shown, widgetVars>>

\* Ctrl + left click without the Math.max(0, ...) floor.
CtrlLeftClickNoFloor(unitId) ==
    /\ Clickable(unitId)
    /\ LET newCount == Owned(inventory, unitId) - 1
       IN  IF newCount = Owned(inventory, unitId)
           THEN inventory' = inventory
           ELSE inventory' = MapSet(inventory, unitId, newCount)
    /\ lastAction' = "other"
    /\ UNCHANGED <<data, bans, isBanMode, isWispEnabled, totalCostCache, shown, widgetVars>>

\* Ctrl + left click: remove one, no refund; at 0 the updater returns prev.
CtrlLeftClick(unitId) ==
    /\ Clickable(unitId)
    /\ LET newCount == Max(0, Owned(inventory, unitId) - 1)
       IN  IF newCount = Owned(inventory, unitId)
           THEN inventory' = inventory
           ELSE inventory' = MapSet(inventory, unitId, newCount)
    /\ lastAction' = "other"
    /\ UNCHANGED <<data, bans, isBanMode, isWispEnabled, totalCostCache, shown, widgetVars>>

RECURSIVE RefundRecipe(_, _, _)

\* unit.recipe.forEach((req) => newInventory[req.unitId] += req.count)
RefundRecipe(recipe, k, inv) ==
    IF k > Len(recipe) THEN inv
    ELSE RefundRecipe(recipe, k + 1,
                      MapSet(inv, recipe[k].unitId,
                             Owned(inv, recipe[k].unitId) + recipe[k].count))

\* The updater of Ctrl + right click without the refund loop.
RefundedNothing(unitId, inv) ==
    MapSet(inv, unitId, Owned(inv, unitId) - 1)

\* The inventory the Ctrl + right click updater returns for a count >= 1.
Refunded(unitId, inv) ==
    RefundRecipe(unitsMap[unitId].recipe, 1,
                 MapSet(inv, unitId, Owned(inv, unitId) - 1))

\* Ctrl + right click: remove one and refund the direct recipe; at 0 the
\* updater returns prev.
CtrlRightClick(unitId) ==
    /\ Clickable(unitId)
    /\ IF Owned(inventory, unitId) <= 0
       THEN inventory' = inventory
       ELSE /\ WithinBound(Refunded(unitId, inventory))
            /\ inventory' = Refunded(unitId, inventory)
    /\ lastAction' = "refund"
    /\ UNCHANGED <<data, bans, isBanMode, isWispEnabled, totalCostCache, shown, widgetVars>>

\* Right click whose error path stores the unit anyway instead of prev.
RightClickAddsOnError(unitId) ==
    /\ Clickable(unitId)
    /\ LET built == consumeMaterials(unitId, unitsMap, inventory)
       IN  IF built.ok
           THEN /\ WithinBound(built.inventory)
                /\ inventory' = built.inventory
                /\ lastAction' = "build"
           ELSE /\ Owned(inventory, unitId) < MaxOwned
                /\ inventory' = MapSet(inventory, unitId, Owned(inventory, unitId) + 1)
                /\ lastAction' = "buildError"
    /\ UNCHANGED <<data, bans, isBanMode, isWispEnabled, totalCostCache, shown, widgetVars>>

\* Right click: build one. The error consumeMaterials throws is caught
\* inside the updater, shown as an error notification, and prev is returned.
RightClick(unitId) ==
    /\ Clickable(unitId)
    /\ LET built == consumeMaterials(unitId, unitsMap, inventory)
       IN  IF built.ok
           THEN /\ WithinBound(built.inventory)
                /\ inventory' = built.inventory
                /\ lastAction' = "build"
           ELSE /\ inventory' = inventory
                /\ lastAction' = "buildError"
    /\ UNCHANGED <<data, bans, isBanMode, isWispEnabled, totalCostCache, shown, widgetVars>>

\* handleCountChange: the count typed into a unit's input.
handleCountChange(unitId, newCount) ==
    /\ unitId \in DOMAIN unitsMap
    /\ inventory' = MapSet(inventory, unitId, Max(0, newCount))
    /\ lastAction' = "other"
    /\ UNCHANGED <<data, bans, isBanMode, isWispEnabled, totalCostCache, shown, widgetVars>>

\* onReset / RESET_INVENTORY, the user confirming.
Reset ==
    /\ inventory' = EmptyInventory
    /\ bans' = {}
    /\ lastAction' = "other"
    /\ UNCHANGED <<data, isBanMode, isWispEnabled, totalCostCache, shown, widgetVars>>

ToggleBanMode ==
    /\ isBanMode' = ~isBanMode
    /\ lastAction' = "other"
    /\ UNCHANGED <<data, inventory, bans, isWispEnabled, totalCostCache, shown, widgetVars>>

ToggleWispMode ==
    /\ isWispEnabled' = ~isWispEnabled
    /\ lastAction' = "other"
    /\ UNCHANGED <<data, inventory, bans, isBanMode, totalCostCache, shown, widgetVars>>

Next ==
    \/ \E ver \in Versions : handleVersionChange(ver)
    \/ handleImportData
    \/ \E unitId \in Ids : BanClick(unitId)
    \/ \E unitId \in Ids : BannedClick(unitId)
    \/ \E unitId \in Ids : LeftClick(unitId)
    \/ \E unitId \in Ids : CtrlLeftClick(unitId)
    \/ \E unitId \in Ids : CtrlRightClick(unitId)
    \/ \E unitId \in Ids : RightClick(unitId)
    \/ \E unitId \in Ids : \E newCount \in -1..MaxOwned :
            handleCountChange(unitId, newCount)
    \/ Reset
    \/ ToggleBanMode
    \/ ToggleWispMode

Spec == Init /\ [][Next]_vars

----------------------------------------------------------------------------
(* The unit list: every UnitListItem computes its UnitDetails *)

\* UnitListItem.effectiveInventory, for the inventory prop `inv`.
effectiveInventoryOf(inv) ==
    IF isWispEnabled THEN inv ELSE MapSet(inv, WispId, 0)

effectiveInventory == effectiveInventoryOf(inventory)

RECURSIVE RenderItems(_, _, _, _)

\* The list items of data.units in order, from index k on; each calls
\* getUnitDetails against the shared totalCostCache. Returns [shown, cache].
RenderItems(order, k, details, cache) ==
    IF k > Len(order) THEN [shown |-> details, cache |-> cache]
    ELSE LET r == getUnitDetails(order[k], unitsMap, effectiveInventory, bans, cache)
         IN  RenderItems(order, k + 1, MapSet(details, order[k], r.details), r.cache)

\* One render pass of the list.
Render ==
    /\ LET r == RenderItems(UnitOrder(data), 1, NothingShown, totalCostCache)
       IN  /\ shown' = r.shown
           /\ totalCostCache' = r.cache
    /\ UNCHANGED <<data, inventory, bans, isBanMode, isWispEnabled, lastAction, widgetVars>>

\* The units that have a recipe in some catalog. A ban on a unit without a
\* recipe changes no resolution: fulfill and calculateRecursive test the ban
\* only where the next test, the empty recipe, gives the same answer.
Crafted == {"b", "c"}

\* Any catalog, owned counts, bans on crafted units and wisp flag, before the
\* first render of a freshly loaded page.
InitDetails ==
    /\ data \in Versions
    /\ inventory \in [Ids -> 0..MaxOwned]
    /\ bans \in SUBSET Crafted
    /\ isBanMode = FALSE
    /\ isWispEnabled \in BOOLEAN
    /\ totalCostCache = EmptyMap
    /\ shown = NothingShown
    /\ lastAction = NoAction
    /\ WidgetsInit

NextDetails == Render

SpecDetails == InitDetails /\ [][NextDetails]_vars

----------------------------------------------------------------------------
(* Claims about the handlers *)

\* The delta consumeMaterials resolves: without substitution if that
\* succeeds, with substitution otherwise; both with an empty ban set.
ResolvedBuild(target, inv) ==
    LET normal == calculateConsumption(target, unitsMap, inv, {}, 1, FALSE)
    IN  IF normal.ok THEN normal
        ELSE calculateConsumption(target, unitsMap, inv, {}, 1, TRUE)

\* The new inventory is the old one with every id of the delta lowered by
\* its amount and the target raised by one; no other id changes.
Conserved(target, delta, old, new) ==
    \A id \in Ids :
        Owned(new, id) =
            Owned(old, id) - Owned(delta, id) + (IF id = target THEN 1 ELSE 0)

\* C1: whenever a right click builds, the stored inventory is the old one
\* with every id of the resolved consumption delta reduced by exactly its
\* amount and the target increased by exactly 1; no other id changes.
C1_BuildConservesInventory ==
    [][\A unitId \in Ids :
          (lastAction' = "build" /\ RightClick(unitId)) =>
              /\ ResolvedBuild(unitId, inventory).ok
              /\ unitId \notin DOMAIN ResolvedBuild(unitId, inventory).consumed
              /\ Conserved(unitId, ResolvedBuild(unitId, inventory).consumed,
                           inventory, inventory')]_vars

\* C1 witness: in the shipped catalog a build has just left exactly one c
\* and nothing else: everything owned before it went into the c.
C1_Witness ==
    /\ lastAction = "build"
    /\ data = "v1"
    /\ inventory = MapSet(EmptyInventory, "c", 1)

\* C2: every owned count is >= 0 in every reachable state, and no resolution
\* (with the user's bans or with none, with or without substitution)
\* reports a consumed amount larger than the owned amount.
C2_CountsNeverNegative ==
    /\ \A id \in DOMAIN inventory : inventory[id] >= 0
    /\ \A target \in DOMAIN unitsMap : \A banSet \in {bans, {}} :
       \A allowWisp \in BOOLEAN :
            LET r == calculateConsumption(target, unitsMap, inventory, banSet, 1,
                                          allowWisp)
            IN  r.ok => \A id \in DOMAIN r.consumed :
                            /\ r.consumed[id] > 0
                            /\ r.consumed[id] <= Owned(inventory, id)

\* C2 witness: a build has just drawn the last wisp to stand in for a
\* missing ingredient, leaving the wisp count at 0.
C2_Witness ==
    /\ lastAction = "build"
    /\ data = "Custom"
    /\ inventory[WispId] = 0
    /\ inventory["a"] = 0
    /\ inventory["b"] = 1
    /\ inventory["c"] = 0

\* C3: when neither resolution of the target succeeds, the right click
\* shows the insufficient-materials error and the stored inventory is
\* identical to the inventory before it.
C3_FailedBuildChangesNothing ==
    [][\A unitId \in Ids :
          (/\ lastAction' \in {"build", "buildError"}
           /\ RightClick(unitId)
           /\ ~ResolvedBuild(unitId, inventory).ok) =>
              /\ inventory' = inventory
              /\ lastAction' = "buildError"]_vars

\* C3 witness: a right click has just failed although part of the recipe
\* (here an owned b for c) was in the inventory and is still there.
C3_Witness ==
    /\ lastAction = "buildError"
    /\ data = "v1"
    /\ inventory = MapSet(EmptyInventory, "b", 1)

----------------------------------------------------------------------------
(* Claims about the resolver, checked on what the list resolves *)

Rendered == shown # NothingShown

\* calculateConsumption succeeds for `count` copies of `target` on the
\* inputs the list passes.
Feasible(target, count, allowWisp) ==
    calculateConsumption(target, unitsMap, effectiveInventory, bans, count,
                         allowWisp).ok

\* The largest N in 0..BuildableCap that resolves with substitution, found
\* by trying every N.
LinearScan(target) ==
    LET feasible == {n \in 1..BuildableCap : Feasible(target, n, TRUE)}
    IN  IF feasible = {} THEN 0
        ELSE CHOOSE m \in feasible : \A n \in feasible : n <= m

\* C4: calculateBuildable returns exactly the largest N with 0 <= N <= 100
\* for which calculateConsumption(target, count = N, allowWisp = true)
\* succeeds: the binary search agrees with the linear scan.
C4_BuildableIsLargestFeasible ==
    Rendered =>
        \A target \in Ids :
            calculateBuildable(target, unitsMap, effectiveInventory, bans)
                = LinearScan(target)

\* C4 witness: a rendered list where the search had to go beyond its first
\* probe: some unit can be built twice.
C4_Witness ==
    /\ Rendered
    /\ \E target \in Ids :
            calculateBuildable(target, unitsMap, effectiveInventory, bans) >= 2

\* C5: if calculateConsumption succeeds for count N + 1 then it succeeds
\* for count N (N >= 1), with or without substitution.
C5_FeasibilityMonotoneInCount ==
    Rendered =>
        \A target \in Ids : \A allowWisp \in BOOLEAN : \A n \in 1..MaxCount :
            Feasible(target, n + 1, allowWisp) => Feasible(target, n, allowWisp)

\* C5 witness: a resolution for two copies succeeds without substitution
\* for a crafted unit while three copies do not resolve.
C5_Witness ==
    /\ Rendered
    /\ \E target \in DOMAIN unitsMap :
        /\ Len(unitsMap[target].recipe) > 0
        /\ Feasible(target, 2, FALSE)
        /\ ~Feasible(target, 3, FALSE)

RECURSIVE SuccessiveBuilds(_, _, _)

\* How many consumeMaterials(target) calls in a row succeed from `inv`,
\* each on the inventory the previous one returned (`done` so far).
SuccessiveBuilds(target, inv, done) ==
    IF done > BuildableCap THEN done
    ELSE LET r == consumeMaterials(target, unitsMap, inv)
         IN  IF r.ok THEN SuccessiveBuilds(target, r.inventory, done + 1)
             ELSE done

\* C6: with an empty ban set and wisps enabled, if calculateBuildable
\* reports n (n < 100) for a target, then exactly n successive
\* consumeMaterials(target) calls succeed and the (n+1)-th fails.
C6_BuildableIsNumberOfBuilds ==
    (Rendered /\ isWispEnabled /\ bans = {}) =>
        \A target \in DOMAIN unitsMap :
            LET n == calculateBuildable(target, unitsMap, inventory, bans)
            IN  n < BuildableCap => SuccessiveBuilds(target, inventory, 0) = n

\* C7: getUnitDetails returns buildableCount >= 1 for every item whose
\* status is green or orange, and 0 for every item whose status is red.
C7_BuildableAtLeastOneIffNotRed ==
    \A unitId \in DOMAIN shown :
        /\ shown[unitId].status \in {"green", "orange"} =>
                shown[unitId].buildableCount >= 1
        /\ shown[unitId].status = "red" => shown[unitId].buildableCount = 0

\* C8: whenever getUnitDetails reports green or orange for a unit under
\* some inventory and ban set (wisps enabled), consumeMaterials for that
\* unit on the same inventory succeeds.
C8_StatusPromisesBuild ==
    isWispEnabled =>
        \A unitId \in DOMAIN shown :
            shown[unitId].status \in {"green", "orange"} =>
                consumeMaterials(unitId, unitsMap, inventory).ok

\* C8 witness: with a ban in force, a unit shown orange that builds.
C8_Witness ==
    /\ isWispEnabled
    /\ bans # {}
    /\ \E unitId \in DOMAIN shown :
        /\ shown[unitId].status = "orange"
        /\ Len(unitsMap[unitId].recipe) > 0
        /\ consumeMaterials(unitId, unitsMap, inventory).ok

\* The UnitDetails the item of `unitId` computes once one more `id` is owned.
DetailsWithOneMore(unitId, id) ==
    getUnitDetails(unitId, unitsMap,
                   effectiveInventoryOf(MapSet(inventory, id, Owned(inventory, id) + 1)),
                   bans, totalCostCache).details

\* C9: with catalog, ban set and substitution flag fixed, increasing the
\* owned count of any single item never decreases progress,
\* materialProgress or buildableCount reported by getUnitDetails.
C9_MonotoneInInventory ==
    \A unitId \in DOMAIN shown : \A id \in Ids :
        LET more == DetailsWithOneMore(unitId, id)
        IN  /\ PctLeq(shown[unitId].progress, more.progress)
            /\ PctLeq(shown[unitId].materialProgress, more.materialProgress)
            /\ shown[unitId].buildableCount <= more.buildableCount

\* C9 witness: a unit shown red with partial progress, for which one more
\* of some item strictly raises materialProgress and keeps it red.
C9_Witness ==
    \E unitId \in DOMAIN shown : \E id \in Ids :
        LET more == DetailsWithOneMore(unitId, id)
        IN  /\ shown[unitId].status = "red"
            /\ more.status = "red"
            /\ shown[unitId].materialProgress.n > 0
            /\ ~PctLeq(more.materialProgress, shown[unitId].materialProgress)

\* The catalog with the ingredients of unit `unitId` in the order `perm`.
PermuteRecipe(catalog, unitId, perm) ==
    [catalog EXCEPT ![unitId].recipe =
        [k \in 1..Len(catalog[unitId].recipe) |-> catalog[unitId].recipe[perm[k]]]]

\* C10: permuting the order of the ingredients inside any recipe does not
\* change whether calculateConsumption succeeds or fails.
C10_RecipeOrderIrrelevant ==
    Rendered =>
        \A unitId \in DOMAIN unitsMap :
        \A perm \in Permutations(1..Len(unitsMap[unitId].recipe)) :
        \A target \in Ids : \A count \in 1..MaxCount : \A allowWisp \in BOOLEAN :
            calculateConsumption(target, PermuteRecipe(unitsMap, unitId, perm),
                                 effectiveInventory, bans, count, allowWisp).ok
                = Feasible(target, count, allowWisp)

----------------------------------------------------------------------------
(* The list across catalog swaps: renders interleaved with version changes
   and imports, against the one process-wide totalCostCache *)

NextCatalog ==
    \/ Render
    \/ \E ver \in Versions : handleVersionChange(ver)
    \/ handleImportData

SpecCatalog == InitDetails /\ [][NextCatalog]_vars

\* Two UnitDetails are the same record of values (percentages as numbers).
SameDetails(d, e) ==
    /\ d.status = e.status
    /\ d.buildableCount = e.buildableCount
    /\ PctEq(d.progress, e.progress)
    /\ PctEq(d.materialProgress, e.materialProgress)
    /\ PctEq(d.wispProgress, e.wispProgress)
    /\ d.wispCost = e.wispCost
    /\ d.isWispAssisted = e.isWispAssisted

\* C11: after the catalog is replaced (version switch or import),
\* calculateTotalCost(id) equals, for every id, the cost derived from the
\* current catalog's recipes alone: what the memo holds never changes the
\* value returned.
C11_MemoNeverStale ==
    \A id \in Ids :
        calculateTotalCost(id, unitsMap, totalCostCache).value
            = calculateTotalCost(id, unitsMap, EmptyMap).value

\* C12: getUnitDetails on the current (catalog, inventory, ban set, wisp
\* flag) returns the same UnitDetails whatever renders and catalog swaps
\* came before: the same as a call made with nothing before it.
C12_DetailsDeterministic ==
    \A unitId \in DOMAIN unitsMap :
        SameDetails(
            getUnitDetails(unitId, unitsMap, effectiveInventory, bans,
                           totalCostCache).details,
            getUnitDetails(unitId, unitsMap, effectiveInventory, bans,
                           EmptyMap).details)

----------------------------------------------------------------------------
(* The list under any stored ban set, in every data version *)

\* As InitDetails, with a ban stored on any id (bans outlive an import, so
\* a stored ban may name an id the current catalog does not define) and
\* with the version that has no Common unit. Wisps are enabled: with them
\* disabled the list resolves as it does when no wisp is owned.
InitBanned ==
    /\ data \in Versions \cup {"v2"}
    /\ inventory \in [Ids -> 0..MaxOwned]
    /\ bans \in SUBSET Ids
    /\ isBanMode = FALSE
    /\ isWispEnabled = TRUE
    /\ totalCostCache = EmptyMap
    /\ shown = NothingShown
    /\ lastAction = NoAction
    /\ WidgetsInit

SpecBanned == InitBanned /\ [][NextDetails]_vars

RECURSIVE RequiredOf(_, _, _)

\* The amount of `id` that the recipe asks for directly, from index k on.
RequiredOf(recipe, k, id) ==
    IF k > Len(recipe) THEN 0
    ELSE (IF recipe[k].unitId = id THEN recipe[k].count ELSE 0)
         + RequiredOf(recipe, k + 1, id)

\* `id` is an item wisps can stand in for.
Wispable(id) ==
    /\ id \in DOMAIN unitsMap
    /\ unitsMap[id].rarity = "Common"
    /\ id # WispId

\* The owned amount of `id`, plus the wisps where substitution covers it.
Covered(id, allowWisp) ==
    Owned(effectiveInventory, id)
        + (IF allowWisp /\ Wispable(id) THEN Owned(effectiveInventory, WispId) ELSE 0)

\* What C13 says of target C, banned ingredient A and one substitution flag.
BanBlocksCraftingOnly(C, A, allowWisp) ==
    LET need == RequiredOf(unitsMap[C].recipe, 1, A)
        with == calculateConsumption(C, unitsMap, effectiveInventory, bans, 1,
                                     allowWisp)
        without == calculateConsumption(C, unitsMap, effectiveInventory,
                                        bans \ {A}, 1, allowWisp)
    IN  /\ Covered(A, allowWisp) < need => ~with.ok
        /\ Owned(effectiveInventory, A) >= need =>
                /\ with.ok = without.ok
                /\ with.ok => Owned(with.consumed, A) >= need

RECURSIVE ReachClosure(_, _)

\* The ids in `set` and every id a recipe of one of them names, and so on.
ReachClosure(catalog, set) ==
    LET more == UNION {{catalog[id].recipe[k].unitId :
                            k \in 1..Len(catalog[id].recipe)} :
                       id \in set \cap DOMAIN catalog}
    IN  IF more \subseteq set THEN set
        ELSE ReachClosure(catalog, set \cup more)

\* The target and every item reachable from it through recipe edges.
Reachable(catalog, id) == ReachClosure(catalog, {id})

\* No item the resolution of `target` can visit (the target itself or an
\* item reachable through recipes), other than common_wisp, is Common.
NoCommonReachable(target) ==
    \A id \in Reachable(unitsMap, target) : ~Wispable(id)

----------------------------------------------------------------------------
(* More claims about the resolver, checked on what the list resolves *)

\* C14: the result of calculateConsumption (success or failure and the
\* consumed delta) is the same whatever the owned count of the target id,
\* the delta never contains the target id, and a build raises the count of
\* the item being built.
C14_TargetCopiesAreNotInputs ==
    Rendered =>
        \A target \in Ids :
            /\ \A count \in 1..MaxCount : \A allowWisp \in BOOLEAN :
                  LET r == calculateConsumption(target, unitsMap,
                                                effectiveInventory, bans, count,
                                                allowWisp)
                  IN  /\ target \notin DOMAIN r.consumed
                      /\ \A n \in 0..MaxOwned :
                            calculateConsumption(target, unitsMap,
                                MapSet(effectiveInventory, target, n), bans,
                                count, allowWisp) = r
            /\ LET built == consumeMaterials(target, unitsMap, inventory)
               IN  built.ok =>
                      Owned(built.inventory, target) = Owned(inventory, target) + 1

\* C14 witness: two c are owned along with the ingredients of one more; c
\* is shown green with buildable count 1 and the resolution leaves the
\* owned c alone.
C14_Witness ==
    /\ Rendered
    /\ data = "v1"
    /\ inventory["c"] = 2
    /\ inventory["b"] = 1
    /\ inventory["a"] = 1
    /\ inventory[WispId] = 1
    /\ shown["c"].status = "green"
    /\ shown["c"].buildableCount = 1
    /\ DOMAIN calculateConsumption("c", unitsMap, effectiveInventory, bans, 1,
                                   FALSE).consumed = {"a", "b", WispId}

\* A catalog item with no recipe.
Primitive(id) ==
    /\ id \in DOMAIN unitsMap
    /\ Len(unitsMap[id].recipe) = 0

TotalCost(id) == calculateTotalCost(id, unitsMap, totalCostCache).value

RECURSIVE RecipeCost(_, _)

\* The sum over the recipe, from index k on, of totalCost(ingredient) * count.
RecipeCost(recipe, k) ==
    IF k > Len(recipe) THEN 0
    ELSE TotalCost(recipe[k].unitId) * recipe[k].count + RecipeCost(recipe, k + 1)

\* C16: calculateTotalCost returns a positive integer for every item of the
\* catalog: 1 for an item with no recipe, and for a crafted item the sum
\* over its recipe of totalCost(ingredient) * count; it is never 0, also
\* when the recipe names an id absent from the catalog.
C16_TotalCostPositive ==
    Rendered =>
        \A id \in DOMAIN unitsMap :
            /\ TotalCost(id) >= 1
            /\ Primitive(id) => TotalCost(id) = 1
            /\ ~Primitive(id) => TotalCost(id) = RecipeCost(unitsMap[id].recipe, 1)

RECURSIVE WeightedSum(_, _)

\* The sum over the ids in `ids` of totalCost(id) * counts[id].
WeightedSum(counts, ids) ==
    IF ids = {} THEN 0
    ELSE LET id == CHOOSE x \in ids : TRUE
         IN  TotalCost(id) * Owned(counts, id) + WeightedSum(counts, ids \ {id})

\* C17: for every successful build, the sum over the consumed delta of
\* calculateTotalCost(id) * delta[id] equals calculateTotalCost(target),
\* and the sum over all ids of totalCost(id) * count is the same before and
\* after the build.
C17_BuildConservesValue ==
    Rendered =>
        \A target \in DOMAIN unitsMap :
            LET resolved == ResolvedBuild(target, inventory)
                built == consumeMaterials(target, unitsMap, inventory)
            IN  built.ok =>
                    /\ WeightedSum(resolved.consumed, Ids) = TotalCost(target)
                    /\ WeightedSum(built.inventory, Ids) = WeightedSum(inventory, Ids)

----------------------------------------------------------------------------
(* RecipeContent: the recipe panel flags the ingredients that are
   effectively banned *)

\* An imported file whose recipe graph has a cycle (a needs b, b needs a)
\* and, past it, a shared ingredient (c, needed by a and by b).
CatalogCyclic ==
    [id \in {"common_wisp", "a", "b", "c"} |->
        CASE id = "common_wisp" -> Unit("Common", << >>)
          [] id = "a" -> Unit("Uncommon", <<Req("b", 1), Req("c", 1)>>)
          [] id = "b" -> Unit("Rare", <<Req("a", 1), Req("c", 1)>>)
          [] id = "c" -> Unit("Legendary", <<Req("common_wisp", 1)>>)]

\* The unitsMap prop of the panel.
PanelCatalog == IF data = "cyclic" THEN CatalogCyclic ELSE Catalog(data)

RECURSIVE isEffectivelyBanned(_, _, _, _)
RECURSIVE someEffectivelyBanned(_, _, _, _, _)

\* u.recipe.some((req) => isEffectivelyBanned(req.unitId, checked)), from
\* index k on: stops at the first ingredient that answers true. `checked`
\* is the one Set all the calls of a query share.
someEffectivelyBanned(recipe, k, checked, catalog, banSet) ==
    IF k > Len(recipe) THEN [banned |-> FALSE, checked |-> checked]
    ELSE LET r == isEffectivelyBanned(recipe[k].unitId, checked, catalog, banSet)
         IN  IF r.banned THEN r
             ELSE someEffectivelyBanned(recipe, k + 1, r.checked, catalog, banSet)

\* isEffectivelyBanned answering true for a unit it has already checked.
isEffectivelyBannedOnRevisit(unitId, checked, catalog, banSet) ==
    IF unitId \in checked THEN [banned |-> TRUE, checked |-> checked]
    ELSE IF unitId \in banSet
         THEN [banned |-> TRUE, checked |-> checked \cup {unitId}]
    ELSE IF unitId \notin DOMAIN catalog
         THEN [banned |-> FALSE, checked |-> checked \cup {unitId}]
    ELSE someEffectivelyBanned(catalog[unitId].recipe, 1, checked \cup {unitId},
                               catalog, banSet)

\* Returns [banned, checked]: the answer and the Set after the call.
isEffectivelyBanned(unitId, checked, catalog, banSet) ==
    IF unitId \in checked THEN [banned |-> FALSE, checked |-> checked]
    ELSE IF unitId \in banSet
         THEN [banned |-> TRUE, checked |-> checked \cup {unitId}]
    ELSE IF unitId \notin DOMAIN catalog
         THEN [banned |-> FALSE, checked |-> checked \cup {unitId}]
    ELSE someEffectivelyBanned(catalog[unitId].recipe, 1, checked \cup {unitId},
                               catalog, banSet)

\* Any stored bans, under a data version or the cyclic import.
InitPanel ==
    /\ data \in Versions \cup {"v2", "cyclic"}
    /\ inventory = EmptyInventory
    /\ bans \in SUBSET Ids
    /\ isBanMode = FALSE
    /\ isWispEnabled = TRUE
    /\ totalCostCache = EmptyMap
    /\ shown = NothingShown
    /\ lastAction = NoAction
    /\ WidgetsInit

\* displayRecipe: a Common unit other than the wisp is shown as made of
\* one wisp, any other unit with its recipe.
DisplayRecipe(unitId) ==
    IF PanelCatalog[unitId].rarity = "Common" /\ unitId # WispId
    THEN <<Req(WispId, 1)>>
    ELSE PanelCatalog[unitId].recipe

\* The panel of `unitId` renders its recipe: each ingredient the catalog
\* defines gets the flag isEffectivelyBanned(req.unitId) returns, every
\* query with a fresh Set.
RenderRecipeContent(unitId) ==
    /\ unitId \in DOMAIN PanelCatalog
    /\ Len(DisplayRecipe(unitId)) > 0
    /\ shown' = [id \in {DisplayRecipe(unitId)[k].unitId :
                            k \in 1..Len(DisplayRecipe(unitId))}
                          \cap DOMAIN PanelCatalog |->
                    isEffectivelyBanned(id, {}, PanelCatalog, bans).banned]
    /\ UNCHANGED <<data, inventory, bans, isBanMode, isWispEnabled,
                   totalCostCache, lastAction, widgetVars>>

NextPanel == \E unitId \in Ids : RenderRecipeContent(unitId)

SpecPanel == InitPanel /\ [][NextPanel]_vars

\* C19: an item is reported effectively banned if and only if it is in the
\* ban set or an item reachable from it through recipe edges is in the ban
\* set, on every catalog: with shared sub-recipes and with a cycle (where
\* the query still returns). Both for the flags the panel shows and for a
\* query on any id.
C19_EffectiveBanIsReachability ==
    /\ \A id \in DOMAIN shown :
            shown[id] <=> (Reachable(PanelCatalog, id) \cap bans # {})
    /\ \A unitId \in Ids :
            isEffectivelyBanned(unitId, {}, PanelCatalog, bans).banned
                <=> (Reachable(PanelCatalog, unitId) \cap bans # {})

\* C19 witness: in the cyclic catalog only c is banned and the panel of a
\* flags its ingredient b: the query for b went round the cycle through a
\* and found c after it.
C19_Witness ==
    /\ data = "cyclic"
    /\ bans = {"c"}
    /\ DOMAIN shown = {"b", "c"}
    /\ shown["b"] = TRUE

\* The percentage p is within [0, 100].
WithinPercent(p) == PctLeq(Pct(0, 1), p) /\ PctLeq(p, Pct(100, 1))

\* C20: getUnitDetails returns progress, materialProgress and wispProgress
\* each within [0, 100], with progress >= materialProgress, progress = 100
\* whenever the status is green or orange, and wispProgress =
\* 100 - materialProgress when it is orange.
C20_ProgressWellFormed ==
    \A unitId \in DOMAIN shown :
        LET d == shown[unitId]
        IN  /\ WithinPercent(d.progress)
            /\ WithinPercent(d.materialProgress)
            /\ WithinPercent(d.wispProgress)
            /\ PctLeq(d.materialProgress, d.progress)
            /\ d.status \in {"green", "orange"} => PctEq(d.progress, Pct(100, 1))
            /\ d.status = "orange" =>
                    PctEq(d.wispProgress,
                          Pct(100 * d.materialProgress.d - d.materialProgress.n,
                              d.materialProgress.d))

----------------------------------------------------------------------------
(* Claims about the missing-cost analysis and the substitution flag *)

RECURSIVE SumOf(_, _)

\* The sum of the quantities the record holds for the ids in `ids`.
SumOf(counts, ids) ==
    IF ids = {} THEN 0
    ELSE LET id == CHOOSE x \in ids : TRUE
         IN  counts[id] + SumOf(counts, ids \ {id})

\* C21: for every target, the sum of the quantities in
\* calculateMissingBaseUnits(target) equals calculateMissingCost(target),
\* both on the same inventory and ban set.
C21_BreakdownSumsToMissingCost ==
    Rendered =>
        \A target \in DOMAIN unitsMap :
            LET missingUnits == calculateMissingBaseUnits(target, unitsMap,
                                                          effectiveInventory, bans)
            IN  SumOf(missingUnits, DOMAIN missingUnits)
                    = calculateMissingCost(target, unitsMap, effectiveInventory, bans)

\* The base Inventory object the overlay holds is, after the call, what was
\* passed in.
BaseUntouched(sim, inv) == sim.base = inv

DetailsOf(unitId) ==
    getUnitDetails(unitId, unitsMap, effectiveInventory, bans, totalCostCache).details

\* C23: while Wisp Mode is disabled no unit's status is orange and every
\* reported wispCost and wispProgress is 0; and a right click that builds
\* while Wisp Mode is disabled consumes what the resolution without
\* substitution gives, never a wisp in place of a missing Common unit.
C23_NoSubstitutionWhileDisabled ==
    /\ [](~isWispEnabled =>
            \A unitId \in DOMAIN unitsMap :
                /\ DetailsOf(unitId).status # "orange"
                /\ DetailsOf(unitId).wispCost = 0
                /\ PctEq(DetailsOf(unitId).wispProgress, Pct(0, 1)))
    /\ [][\A unitId \in Ids :
            (lastAction' = "build" /\ ~isWispEnabled /\ RightClick(unitId)) =>
                calculateConsumption(unitId, unitsMap, inventory, {}, 1, FALSE).ok]_vars

----------------------------------------------------------------------------
(* More claims about the handlers *)

\* C24: Ctrl + right click on a unit whose owned count is >= 1 lowers that
\* unit's count by exactly 1 and raises each ingredient of its direct recipe
\* by that ingredient's recipe count, every other count unchanged; when the
\* owned count is 0 the inventory is left unchanged.
C24_RefundReturnsDirectRecipe ==
    [][\A unitId \in Ids :
          (lastAction' = "refund" /\ CtrlRightClick(unitId)) =>
              IF Owned(inventory, unitId) >= 1
              THEN \A id \in Ids :
                      Owned(inventory', id) =
                          Owned(inventory, id)
                            - (IF id = unitId THEN 1 ELSE 0)
                            + RequiredOf(unitsMap[unitId].recipe, 1, id)
              ELSE inventory' = inventory]_vars

\* C24 witness: a refund has just turned the one c owned into its direct
\* recipe: one b, one a and one wisp.
C24_Witness ==
    /\ lastAction = "refund"
    /\ data = "v1"
    /\ inventory = [id \in Ids |-> IF id = "c" THEN 0 ELSE 1]

----------------------------------------------------------------------------
(* RecipeModal: the navigation history *)

\* What handleUnitClick(nextUnit) makes of the state [currentUnit, history].
navigate(modal, nextUnit) ==
    IF nextUnit = modal.currentUnit
    THEN modal
    ELSE [currentUnit |-> nextUnit,
          history |-> Append(modal.history, modal.currentUnit)]

\* A back button that returns to the oldest entry of the history.
undoOldest(modal) ==
    IF Len(modal.history) = 0
    THEN modal
    ELSE [currentUnit |-> modal.history[1], history |-> Tail(modal.history)]

\* What handleUndo makes of the state [currentUnit, history].
undo(modal) ==
    IF Len(modal.history) = 0
    THEN modal
    ELSE [currentUnit |-> modal.history[Len(modal.history)],
          history |-> SubSeq(modal.history, 1, Len(modal.history) - 1)]

ModalState == [currentUnit |-> currentUnit, history |-> history]

\* The parent opens the modal on `unitId`: the render that sees isOpen turn
\* true resets currentUnit and history.
OpenModal(unitId) ==
    /\ ~isOpen
    /\ modalUnit' = unitId
    /\ isOpen' = TRUE
    /\ currentUnit' = unitId
    /\ history' = <<>>
    /\ UNCHANGED <<appVars, shortcutVars, imageVars>>

\* onClose from the overlay or the close button: the render that sees
\* isOpen turn false only records it.
CloseModal ==
    /\ isOpen
    /\ isOpen' = FALSE
    /\ UNCHANGED <<modalUnit, currentUnit, history>>
    /\ UNCHANGED <<appVars, shortcutVars, imageVars>>

\* A click on a unit of the recipe shown.
handleUnitClick(nextUnit) ==
    /\ isOpen
    /\ Len(navigate(ModalState, nextUnit).history) <= MaxHistory
    /\ currentUnit' = navigate(ModalState, nextUnit).currentUnit
    /\ history' = navigate(ModalState, nextUnit).history
    /\ UNCHANGED <<modalUnit, isOpen>>
    /\ UNCHANGED <<appVars, shortcutVars, imageVars>>

\* The back button.
handleUndo ==
    /\ isOpen
    /\ currentUnit' = undo(ModalState).currentUnit
    /\ history' = undo(ModalState).history
    /\ UNCHANGED <<modalUnit, isOpen>>
    /\ UNCHANGED <<appVars, shortcutVars, imageVars>>

NextModal ==
    \/ \E unitId \in Ids : OpenModal(unitId)
    \/ CloseModal
    \/ \E nextUnit \in Ids : handleUnitClick(nextUnit)
    \/ handleUndo

SpecModal == Init /\ [][NextModal]_vars

\* The state `k` back actions lead to.
RECURSIVE Unwind(_, _)
Unwind(modal, k) ==
    IF k = 0 THEN modal ELSE Unwind(undo(modal), k - 1)

\* C25: the navigation history of the recipe modal is a stack. While the
\* modal is open on unit U, as many back actions as navigations are
\* outstanding lead to U with an empty history; every back action returns to
\* the unit that was shown just before the navigation it undoes; a click on
\* the unit shown changes neither the unit shown nor the history.
C25_HistoryIsStack ==
    /\ [](isOpen =>
            /\ Unwind(ModalState, Len(history)) =
                    [currentUnit |-> modalUnit, history |-> <<>>]
            /\ history = <<>> => currentUnit = modalUnit)
    /\ [][\A nextUnit \in Ids :
            handleUnitClick(nextUnit) =>
                IF nextUnit = currentUnit
                THEN currentUnit' = currentUnit /\ history' = history
                ELSE /\ currentUnit' = nextUnit
                     /\ undo([currentUnit |-> currentUnit',
                              history |-> history']) = ModalState]_vars

\* C25 witness: three navigations deep, the last of them back to the unit
\* the modal opened on.
C25_Witness ==
    /\ isOpen
    /\ Len(history) = MaxHistory
    /\ history[1] = modalUnit
    /\ currentUnit = modalUnit

----------------------------------------------------------------------------
(* More claims about the resolver *)

\* C26: enabling substitution never makes a feasible resolution infeasible:
\* whenever calculateConsumption succeeds for a target and a count with
\* allowWisp = false, it succeeds on the same inputs with allowWisp = true.
C26_SubstitutionKeepsFeasible ==
    Rendered =>
        \A unitId \in DOMAIN unitsMap : \A count \in 1..MaxCount :
            Feasible(unitId, count, FALSE) => Feasible(unitId, count, TRUE)

\* The materialProgress the steps of getUnitDetails after the green branch
\* compute for `unitId` on the inputs the list passes.
FormulaMaterialProgress(unitId) ==
    LET totalCost == calculateTotalCost(unitId, unitsMap, totalCostCache).value
        missingCost == calculateMissingCost(unitId, unitsMap, effectiveInventory, bans)
    IN  IF totalCost = 0 THEN Pct(0, 1)
        ELSE Clamp(MaterialProgress(totalCost, missingCost))

\* C27: the feasibility check and the missing-cost analysis agree: one copy
\* of a target resolves without substitution exactly when its missing cost is
\* 0, and the materialProgress of 100 the green branch reports is what the
\* progress formula gives for that target.
C27_FeasibleIffNothingMissing ==
    Rendered =>
        \A unitId \in DOMAIN shown :
            /\ Feasible(unitId, 1, FALSE) <=>
                    calculateMissingCost(unitId, unitsMap, effectiveInventory,
                                         bans) = 0
            /\ shown[unitId].status = "green" =>
                    PctEq(shown[unitId].materialProgress,
                          FormulaMaterialProgress(unitId))

----------------------------------------------------------------------------
(* Clicks on banned units *)

\* handleUnitClick(unitId, ...) as the mouse and the unit shortcuts call it
\* outside ban mode: left, right, Ctrl + left, Ctrl + right; a unit shortcut
\* is a left or a Ctrl + left click.
Click(unitId) ==
    \/ BannedClick(unitId)
    \/ LeftClick(unitId)
    \/ CtrlLeftClick(unitId)
    \/ CtrlRightClick(unitId)
    \/ RightClick(unitId)

\* C28: outside ban mode a click (left, right, Ctrl + left, Ctrl + right or
\* a unit shortcut) on a unit of the effective ban set changes neither the
\* inventory nor the ban set.
C28_BannedUnitIgnoresClicks ==
    [][~isBanMode =>
          \A unitId \in effectiveBans :
              Click(unitId) => inventory' = inventory /\ bans' = bans]_vars

\* C28 witness: c is owned and a is banned, which bans c effectively; a
\* click on c outside ban mode has just been ignored.
C28_Witness ==
    /\ lastAction = "ignored"
    /\ ~isBanMode
    /\ data = "v1"
    /\ bans = {"a"}
    /\ "c" \in effectiveBans
    /\ Owned(inventory, "c") >= 1

----------------------------------------------------------------------------
(* useShortcuts *)

\* The units a shortcut is given to.
ShortcutUnits == {"a", "b"}

\* `Object.keys(next).forEach((k) => { if (next[k] === key) delete next[k] })`
WithoutKey(map, key) ==
    [id \in {k \in DOMAIN map : map[k] # key} |-> map[id]]

\* `next[id] = key`
WithEntry(map, id, key) ==
    [k \in DOMAIN map \cup {id} |-> IF k = id THEN key ELSE map[k]]

\* `delete next[id]`
WithoutEntry(map, id) ==
    [k \in DOMAIN map \ {id} |-> map[k]]

\* setUnitShortcut that leaves the global shortcuts alone.
setUnitShortcutKeepingGlobal(unitId, key) ==
    /\ unitShortcuts' = WithEntry(WithoutKey(unitShortcuts, key), unitId, key)
    /\ globalShortcuts' = globalShortcuts
    /\ lastAssigned' = WithEntry(lastAssigned, key, UnitTarget(unitId))
    /\ UNCHANGED <<appVars, modalVars, imageVars>>

setUnitShortcut(unitId, key) ==
    /\ unitShortcuts' = WithEntry(WithoutKey(unitShortcuts, key), unitId, key)
    /\ globalShortcuts' = WithoutKey(globalShortcuts, key)
    /\ lastAssigned' = WithEntry(lastAssigned, key, UnitTarget(unitId))
    /\ UNCHANGED <<appVars, modalVars, imageVars>>

setGlobalShortcut(actionId, key) ==
    /\ globalShortcuts' = WithEntry(WithoutKey(globalShortcuts, key), actionId, key)
    /\ unitShortcuts' = WithoutKey(unitShortcuts, key)
    /\ lastAssigned' = WithEntry(lastAssigned, key, GlobalTarget(actionId))
    /\ UNCHANGED <<appVars, modalVars, imageVars>>

removeUnitShortcut(unitId) ==
    /\ unitShortcuts' = WithoutEntry(unitShortcuts, unitId)
    /\ UNCHANGED <<globalShortcuts, lastAssigned>>
    /\ UNCHANGED <<appVars, modalVars, imageVars>>

removeGlobalShortcut(actionId) ==
    /\ globalShortcuts' = WithoutEntry(globalShortcuts, actionId)
    /\ UNCHANGED <<unitShortcuts, lastAssigned>>
    /\ UNCHANGED <<appVars, modalVars, imageVars>>

\* resetShortcuts; the defaults count as the last assignment of their keys.
resetShortcuts ==
    /\ unitShortcuts' = EmptyMap
    /\ globalShortcuts' = DEFAULT_GLOBAL_SHORTCUTS
    /\ lastAssigned' =
            [key \in DOMAIN lastAssigned \cup DOMAIN DefaultAssigned |->
                IF key \in DOMAIN DefaultAssigned THEN DefaultAssigned[key]
                ELSE lastAssigned[key]]
    /\ UNCHANGED <<appVars, modalVars, imageVars>>

NextShortcuts ==
    \/ \E unitId \in ShortcutUnits : \E key \in Keys : setUnitShortcut(unitId, key)
    \/ \E actionId \in GLOBAL_ACTIONS : \E key \in Keys :
            setGlobalShortcut(actionId, key)
    \/ \E unitId \in ShortcutUnits : removeUnitShortcut(unitId)
    \/ \E actionId \in GLOBAL_ACTIONS : removeGlobalShortcut(actionId)
    \/ resetShortcuts

SpecShortcuts == Init /\ [][NextShortcuts]_vars

\* The targets `key` is bound to: what getUnitIdByKey and getActionIdByKey
\* search.
Holders(key) ==
    {UnitTarget(unitId) : unitId \in {id \in DOMAIN unitShortcuts :
                                            unitShortcuts[id] = key}}
    \cup {GlobalTarget(actionId) :
            actionId \in {id \in DOMAIN globalShortcuts :
                                globalShortcuts[id] = key}}

\* C29: shortcut keys are unique: from the default bindings on, whatever
\* sequence of setUnitShortcut, setGlobalShortcut, removeUnitShortcut,
\* removeGlobalShortcut and resetShortcuts has run, no key is bound to more
\* than one target among the unit and the global shortcuts together, and a
\* key that is bound is bound to the target it was last assigned to.
C29_ShortcutKeysUnique ==
    \A key \in Keys :
        /\ Cardinality(Holders(key)) <= 1
        /\ Holders(key) # {} =>
                /\ key \in DOMAIN lastAssigned
                /\ Holders(key) = {lastAssigned[key]}

\* C29 witness: the key of a default global shortcut has been given to a
\* unit, which took it from the global action, and the action that has no
\* default holds a key of its own.
C29_Witness ==
    /\ Holders("t") = {UnitTarget("a")}
    /\ Holders("q") = {GlobalTarget("RESET_INVENTORY")}
    /\ "TOGGLE_TOOLTIP" \notin DOMAIN globalShortcuts

----------------------------------------------------------------------------
(* CachedImage *)

\* URL.createObjectURL(blob) for the image at `url`.
ObjectUrl(url) == IF url = "u1" THEN "blob:u1" ELSE "blob:u2"

\* `imageCache.get(src) || null`
CachedOrNull(src) ==
    IF src \in DOMAIN imageCache THEN imageCache[src] ELSE NoImage

\* First render of a component with `src`: the useState initialisers run
\* and the commit leaves the effect to be flushed.
Mount(c, src) ==
    /\ ~images[c].mounted
    /\ ~images[c].passive
    /\ images' = [images EXCEPT ![c] =
                    [mounted |-> TRUE, src |-> src,
                     cachedSrc |-> CachedOrNull(src), passive |-> TRUE]]
    /\ UNCHANGED <<imageCache, pendingRequests, promises, closures>>
    /\ UNCHANGED <<appVars, modalVars, shortcutVars>>

\* Render with another src: `if (src !== prevSrc)` resets cachedSrc; the
\* commit leaves the cleanup of the old effect and the new effect to be
\* flushed. React flushes the passive effects of a commit before it renders
\* again.
ChangeSrc(c, src) ==
    /\ images[c].mounted
    /\ ~images[c].passive
    /\ src # images[c].src
    /\ images' = [images EXCEPT ![c].src = src,
                                ![c].cachedSrc = CachedOrNull(src),
                                ![c].passive = TRUE]
    /\ UNCHANGED <<imageCache, pendingRequests, promises, closures>>
    /\ UNCHANGED <<appVars, modalVars, shortcutVars>>

\* The component is removed; the cleanup of its effect is left to be
\* flushed.
Unmount(c) ==
    /\ images[c].mounted
    /\ ~images[c].passive
    /\ images' = [images EXCEPT ![c] = [Unmounted EXCEPT !.passive = TRUE]]
    /\ UNCHANGED <<imageCache, pendingRequests, promises, closures>>
    /\ UNCHANGED <<appVars, modalVars, shortcutVars>>

\* `return () => { isMounted = false }` of the effect `c` committed before.
Cleanup(c) ==
    {[cl EXCEPT !.isMounted = IF cl.comp = c THEN FALSE ELSE cl.isMounted] :
        cl \in closures}

\* The passive effects of the last commit of `c`: the cleanup of the
\* previous effect, then, if `c` is rendered, the effect for its src, which
\* returns at once for a cached src and otherwise calls fetchImage() up to
\* its await: the pending promise of the URL is taken, or fetch(src) is
\* called and its promise stored.
FlushPassiveEffects(c) ==
    /\ images[c].passive
    /\ images' = [images EXCEPT ![c].passive = FALSE]
    /\ UNCHANGED imageCache
    /\ IF ~images[c].mounted \/ images[c].src \in DOMAIN imageCache
       THEN /\ closures' = Cleanup(c)
            /\ UNCHANGED <<pendingRequests, promises>>
       ELSE LET src == images[c].src
                requestPromise ==
                    IF src \in DOMAIN pendingRequests
                    THEN pendingRequests[src]
                    ELSE Len(promises) + 1
            IN  /\ src \in DOMAIN pendingRequests \/ Len(promises) < MaxFetches
                /\ promises' =
                        IF src \in DOMAIN pendingRequests THEN promises
                        ELSE Append(promises,
                                    [url |-> src, settled |-> FALSE,
                                     value |-> NoImage])
                /\ pendingRequests' =
                        [url \in DOMAIN pendingRequests \cup {src} |->
                            IF url = src THEN requestPromise
                            ELSE pendingRequests[url]]
                /\ closures' = Cleanup(c) \cup
                        {[comp |-> c, src |-> src, promise |-> requestPromise,
                          isMounted |-> TRUE]}
    /\ UNCHANGED <<appVars, modalVars, shortcutVars>>

\* The chain fetch(src).then(blob).then(createObjectURL).catch(() => src)
\* settles: with the object URL, or with src itself when the fetch failed.
Settle(p, succeeded) ==
    /\ p \in 1..Len(promises)
    /\ ~promises[p].settled
    /\ promises' = [promises EXCEPT ![p].settled = TRUE,
                                    ![p].value = IF succeeded
                                                 THEN ObjectUrl(promises[p].url)
                                                 ELSE promises[p].url]
    /\ UNCHANGED <<imageCache, pendingRequests, closures, images>>
    /\ UNCHANGED <<appVars, modalVars, shortcutVars>>

\* fetchImage() of the closure `cl` resumes after its await: it caches the
\* result, deletes the pending request and, if its isMounted is still true,
\* calls setCachedSrc, which does nothing on a component that is gone.
Resume(cl) ==
    /\ cl \in closures
    /\ promises[cl.promise].settled
    /\ imageCache' = [url \in DOMAIN imageCache \cup {cl.src} |->
                        IF url = cl.src THEN promises[cl.promise].value
                        ELSE imageCache[url]]
    /\ pendingRequests' = [url \in DOMAIN pendingRequests \ {cl.src} |->
                                pendingRequests[url]]
    /\ images' = IF cl.isMounted /\ images[cl.comp].mounted
                 THEN [images EXCEPT ![cl.comp].cachedSrc =
                                            promises[cl.promise].value]
                 ELSE images
    /\ closures' = closures \ {cl}
    /\ UNCHANGED promises
    /\ UNCHANGED <<appVars, modalVars, shortcutVars>>

\* Every closure a fetchImage() call can be suspended in.
Closures ==
    [comp : Comps, src : Urls, promise : 1..MaxFetches, isMounted : BOOLEAN]

NextImages ==
    \/ \E c \in Comps : \E src \in Urls : Mount(c, src)
    \/ \E c \in Comps : \E src \in Urls : ChangeSrc(c, src)
    \/ \E c \in Comps : Unmount(c)
    \/ \E c \in Comps : FlushPassiveEffects(c)
    \/ \E p \in 1..MaxFetches : \E succeeded \in BOOLEAN : Settle(p, succeeded)
    \/ \E cl \in Closures : Resume(cl)

SpecImages == Init /\ [][NextImages]_vars

\* C30: image fetches are de-duplicated under every interleaving of mounts,
\* unmounts and src changes: no URL is ever fetched twice (neither while a
\* fetch of it is in flight nor after one has completed, successfully or
\* not), and a fetch that completes after the component waiting for it was
\* unmounted or given another src does not set that component's displayed
\* image.
C30_FetchesDeduplicated ==
    /\ [](\A p, q \in 1..Len(promises) :
            promises[p].url = promises[q].url => p = q)
    /\ [][\A cl \in closures :
            (/\ Resume(cl)
             /\ \/ ~images[cl.comp].mounted
                \/ images[cl.comp].src # cl.src) =>
                images'[cl.comp].cachedSrc = images[cl.comp].cachedSrc]_vars

====
